---------------------------- MODULE Spec2Model ----------------------------
(***************************************************************************)
(* Model of the concurrent fetch engine of src/Scraper.py: main() spawns   *)
(* one fetch_page task per page, the tasks share an asyncio.Semaphore, the *)
(* output file f and the global list failed_attempts.                      *)
(*                                                                         *)
(* asyncio is single-threaded and cooperative: a task runs without         *)
(* interruption from one await to the next.  Each action below is one such *)
(* uninterrupted stretch of code.  The awaits of fetch_page are            *)
(*   line 28      async with semaphore           (pc = "acquire28")        *)
(*   line 35/51   session.get / response.json    (pc = "get35")            *)
(*   line 41,48,85,87,97,110   asyncio.sleep     (pc = "sleep<line>")      *)
(***************************************************************************)
EXTENDS Integers, Sequences, FiniteSets, TLC

\* ------------------------------------------------------------- bounds ---
\* Pages and semaphore capacity of the runs explored by Spec (the program
\* itself is configured with 214849 pages and 50 permits).
NumPages == 2
Capacity == 1
\* Longest results list a response body carries.
MaxResults == 2
\* Runs of main() in one process explored by SpecTwoRuns.
MaxRuns == 2
\* Steps of a run in which a print raises, in the runs with faults.
MaxFaults == 1

\* -------------------------------------------------- program constants ---
max_attempts == 5
ClientErrorDelay == 2

VARIABLES
    total_pages,             \* configured number of pages
    max_concurrent_requests, \* configured semaphore capacity
    remote,                  \* remote[p][a]: the outcomes the remote side may
                             \*   give the call of attempt a for page p
    run,                     \* number of the current run of main() in the process
    mainpc,                  \* position of main()
    spawned,                 \* number of tasks main() has created
    cancel_requested,        \* the run was cancelled (operator interrupt)
    semaphore,               \* free permits (asyncio.Semaphore._value)
    pc,                      \* pc[p]: position of the task of page p
    attempt,                 \* attempt[p]: loop variable of fetch_page
    wait_time,               \* wait_time[p]: duration of the sleep in progress
    calls,                   \* calls[p]: session.get calls made for p
    waited,                  \* waited[p]: total seconds of completed sleeps
    response,                \* response[p]: outcome of the latest call, until
                             \*   the next call is issued
    only500,                 \* only500[p]: every response so far was HTTP 500
    f,                       \* output stream, in the order written: the text
                             \*   of a record <<page, entry>> or a line end NL
    failed_attempts,         \* the failure ledger (global list)
    failed_count,            \* summary, -1 until computed
    success_count,           \* summary, -1 until computed
    faults,                  \* steps of the run in which a print has raised
    keyboard_interrupt,      \* KeyboardInterrupt was raised inside the event
                             \*   loop, which asyncio.run (line 177) then leaves
    f_fail                   \* failed_attempts.json: <<>> while the file does
                             \*   not exist, then <<list of failed pages>>,
                             \*   or CutOff(pages) when the text is incomplete

vars == <<total_pages, max_concurrent_requests, remote, run, mainpc, spawned,
          cancel_requested, semaphore, pc, attempt, wait_time, calls, waited,
          response, only500, f, failed_attempts, failed_count, success_count,
          faults, keyboard_interrupt, f_fail>>

\* What no step of a run changes: the configuration, the remote side's
\* behaviour and the number of the run.
config == <<total_pages, max_concurrent_requests, remote, run>>

Pages == 1..total_pages

\* ------------------------------------------------------ Backoff policy ---
RECURSIVE Pow2(_)
Pow2(n) == IF n = 0 THEN 1 ELSE 2 * Pow2(n - 1)

\* (bug variant: the rate-limit wait grows linearly)
RateLimitDelayLinear(a) == 5 * (a + 1)

\* line 37: wait_time = 5 * (2 ** attempt)
RateLimitDelay(a) == 5 * Pow2(a)

\* lines 48, 81, 93, 106: 2 ** attempt
ExpDelay(a) == Pow2(a)

\* ------------------------------------------- what the remote side sends ---
Entries == {"ok", "bad"}     \* "bad": an entry lacking one of the three keys

ResultLists == UNION {[1..n -> Entries] : n \in 0..MaxResults}

BodyShapes == {"results",          \* {"standings": {"results": [...]}}
               "noStandings",      \* a JSON object without "standings"
               "noResults",        \* "standings" is an object without "results"
               "standingsNull",    \* "standings" is null: the key test raises
               "invalidJson",      \* body is not JSON: json.JSONDecodeError
               "wrongContentType"} \* aiohttp.ContentTypeError, status 2xx

Response(s, b, r) == [kind |-> "response", status |-> s, body |-> b, results |-> r]
Raised(k, s)      == [kind |-> k, status |-> s, body |-> "none", results |-> <<>>]

NoResponse == Raised("none", 0)

Outcomes ==
    {Response(s, "none", <<>>) : s \in {429, 500, 404}}
    \cup {Response(200, b, <<>>) : b \in BodyShapes \ {"results"}}
    \cup {Response(200, "results", r) : r \in ResultLists}
    \cup {Raised("ClientResponseError", s) : s \in {502, 407}}
    \cup {Raised("ClientConnectionError", 0), Raised("TimeoutError", 0)}

\* line 52: 'standings' in data and 'results' in data['standings']
HasKeys(b) == b = "results"

\* lines 54-61: the entries written before the first one that fails to map
RECURSIVE GoodPrefix(_)
GoodPrefix(r) ==
    IF r = <<>> \/ r[1] = "bad" THEN 0 ELSE 1 + GoodPrefix(Tail(r))

AllMapped(r) == GoodPrefix(r) = Len(r)

\* line 60: the '\n' that ends the line of a record
NL == <<0, 0>>

\* lines 55-61: f.write(json.dumps(player_obj) + '\n'); f.flush() for the
\* entries 1..n of page p: the text of each record followed by its line end
Lines(p, n) ==
    [k \in 1..(2 * n) |-> IF k % 2 = 1 THEN <<p, (k + 1) \div 2>> ELSE NL]

\* (bug variant: a 429 is recorded as a failure instead of being retried)
BranchRateLimitFatal(o) ==
    IF o.kind = "ClientResponseError"
    THEN IF 500 <= o.status /\ o.status < 600 THEN "sleep85" ELSE "sleep87"
    ELSE IF o.kind = "ClientConnectionError" THEN "sleep97"
    ELSE IF o.kind = "TimeoutError" THEN "sleep110"
    ELSE IF o.status = 429 THEN "append72"
    ELSE IF ~(200 <= o.status /\ o.status < 300) THEN "sleep48"
    ELSE IF o.body = "wrongContentType" THEN "sleep87"
    ELSE IF o.body \in {"invalidJson", "standingsNull"} THEN "sleep110"
    ELSE IF ~HasKeys(o.body) THEN "append72"
    ELSE IF AllMapped(o.results) THEN "return67"
    ELSE "sleep110"

\* The branch of fetch_page an attempt's outcome leads to, named by the line
\* where the attempt ends (a return or an append) or sleeps.
Branch(o) ==
    IF o.kind = "ClientResponseError"
    THEN IF 500 <= o.status /\ o.status < 600 THEN "sleep85" ELSE "sleep87"
    ELSE IF o.kind = "ClientConnectionError" THEN "sleep97"
    ELSE IF o.kind = "TimeoutError" THEN "sleep110"
    ELSE IF o.status = 429 THEN "sleep41"
    ELSE IF ~(200 <= o.status /\ o.status < 300) THEN "sleep48"
    ELSE IF o.body = "wrongContentType" THEN "sleep87"
    ELSE IF o.body \in {"invalidJson", "standingsNull"} THEN "sleep110"
    ELSE IF ~HasKeys(o.body) THEN "append72"
    ELSE IF AllMapped(o.results) THEN "return67"
    ELSE "sleep110"

SleepPcs == {"sleep41", "sleep48", "sleep85", "sleep87", "sleep97", "sleep110"}
HoldingPcs == SleepPcs \cup {"get35"}
EndedPcs == {"returned", "cancelled", "raised"}

\* (bug variant: the non-5xx ClientResponseError branch backs off like the rest)
DelayAllExponential(b, a) ==
    IF b = "sleep41" THEN RateLimitDelay(a) ELSE ExpDelay(a)

\* delay(attempt, failure kind): the argument of asyncio.sleep in each branch
Delay(b, a) ==
    IF b = "sleep41" THEN RateLimitDelay(a)
    ELSE IF b = "sleep87" THEN ClientErrorDelay
    ELSE ExpDelay(a)

\* ---------------------------------------------------------------- Init ---
Attempts == 0..(max_attempts - 1)

InitWith(n, c, r) ==
    /\ total_pages = n
    /\ max_concurrent_requests = c
    /\ remote = r
    /\ run = 1
    /\ mainpc = "spawn"
    /\ spawned = 0
    /\ cancel_requested = FALSE
    /\ semaphore = c
    /\ pc = [p \in 1..n |-> "none"]
    /\ attempt = [p \in 1..n |-> 0]
    /\ wait_time = [p \in 1..n |-> 0]
    /\ calls = [p \in 1..n |-> 0]
    /\ waited = [p \in 1..n |-> 0]
    /\ response = [p \in 1..n |-> NoResponse]
    /\ only500 = [p \in 1..n |-> TRUE]
    /\ f = <<>>
    /\ failed_attempts = <<>>
    /\ failed_count = -1
    /\ success_count = -1
    /\ faults = 0
    /\ keyboard_interrupt = FALSE
    /\ f_fail = <<>>

\* Runs of NumPages pages over Capacity permits.  Every call can succeed
\* with one record, be answered 500, carry a body without the keys, or fail
\* to connect.
RunOutcomes ==
    {Response(500, "none", <<>>),
     Response(200, "results", <<"ok">>),
     Response(200, "noStandings", <<>>),
     Raised("ClientConnectionError", 0)}

Init == InitWith(NumPages, Capacity,
                 [p \in 1..NumPages |-> [a \in Attempts |-> RunOutcomes]])

\* One page, one permit, every outcome possible at every attempt.
InitPage == InitWith(1, 1, [p \in {1} |-> [a \in Attempts |-> Outcomes]])

\* Three pages over two permits: page 1 succeeds at once with 2 records,
\* page 2 is answered 429 once and then succeeds with 1 record, page 3 is
\* answered 500 at every attempt.
Scenario(p, a) ==
    IF p = 1 THEN {Response(200, "results", <<"ok", "ok">>)}
    ELSE IF p = 2
    THEN IF a = 0 THEN {Response(429, "none", <<>>)}
                  ELSE {Response(200, "results", <<"ok">>)}
    ELSE {Response(500, "none", <<>>)}

InitE2E == InitWith(3, 2, [p \in 1..3 |-> [a \in Attempts |-> Scenario(p, a)]])

\* Every page can be in flight at once (as many permits as pages); every
\* call is answered 500 or succeeds with 1..MaxResults records.
SinkOutcomes ==
    {Response(500, "none", <<>>)}
    \cup {Response(200, "results", [i \in 1..n |-> "ok"]) : n \in 1..MaxResults}

InitSink == InitWith(NumPages, NumPages,
                     [p \in 1..NumPages |-> [a \in Attempts |-> SinkOutcomes]])

\* Two pages over one permit with the outcomes of Init, for the runs in
\* which prints may raise.
InitFaulty == InitWith(2, 1, [p \in 1..2 |-> [a \in Attempts |-> RunOutcomes]])

\* ---------------------------------------------------------------- main ---
\* lines 133-135: create the task of the next page (no await in the loop);
\* after the last one main reaches the await of line 144.  Before the first
\* one, line 131 has opened the output file with mode 'w', which empties it.
Spawn ==
    /\ mainpc = "spawn"
    /\ spawned < total_pages
    /\ spawned' = spawned + 1
    /\ pc' = [pc EXCEPT ![spawned + 1] = "acquire28"]
    /\ mainpc' = IF spawned + 1 = total_pages THEN "gather" ELSE "spawn"
    /\ f' = IF spawned = 0 THEN <<>> ELSE f
    /\ UNCHANGED <<config, keyboard_interrupt, faults, cancel_requested, semaphore, attempt,
                   wait_time, calls, waited, response, only500,
                   failed_attempts, failed_count, success_count, f_fail>>

\* (bug variant: gather without return_exceptions: an exception of a task
\* leaves main, which never reaches the summary)
FinishAbortsOnException ==
    /\ mainpc = "gather"
    /\ \A p \in Pages : pc[p] = "returned"
    /\ failed_count' = Len(failed_attempts)
    /\ success_count' = total_pages - Len(failed_attempts)
    /\ f_fail' = <<failed_attempts>>
    /\ mainpc' = "done"
    /\ UNCHANGED <<config, keyboard_interrupt, faults, spawned,
                   cancel_requested, semaphore, pc, attempt, wait_time, calls,
                   waited, response, only500, f, failed_attempts>>

\* (bug variant: main goes on as soon as one task has ended)
FinishEarly ==
    /\ mainpc = "gather"
    /\ \E p \in Pages : pc[p] \in EndedPcs
    /\ failed_count' = Len(failed_attempts)
    /\ success_count' = total_pages - Len(failed_attempts)
    /\ f_fail' = <<failed_attempts>>
    /\ mainpc' = "done"
    /\ UNCHANGED <<config, keyboard_interrupt, faults, spawned,
                   cancel_requested, semaphore, pc, attempt, wait_time, calls,
                   waited, response, only500, f, failed_attempts>>

\* lines 144-170: gather returns once every task has ended; the summary is
\* computed and the failure report written without a further await on tasks.
Finish ==
    /\ mainpc = "gather"
    /\ \A p \in Pages : pc[p] \in EndedPcs
    /\ failed_count' = Len(failed_attempts)
    /\ success_count' = total_pages - Len(failed_attempts)
    /\ f_fail' = <<failed_attempts>>
    /\ mainpc' = "done"
    /\ UNCHANGED <<config, keyboard_interrupt, faults, spawned,
                   cancel_requested, semaphore, pc, attempt, wait_time, calls,
                   waited, response, only500, f, failed_attempts>>

\* The first operator interrupt: asyncio.run (line 177) cancels main.
\* While main is suspended at the await of gather (line 144): gather is
\* cancelled, every outstanding task is asked to cancel, and CancelledError
\* leaves main (lines 178-181 exit the process).  main stays suspended
\* there until the loop delivers gather's result, one step after the last
\* task has ended, so the interrupt can also arrive when no task is
\* outstanding: lines 146-170 are skipped all the same.
\* Before main's first step: main ends cancelled without running a line,
\* no task is created and the output file is not opened.  (During the
\* first step the request is held until the await of line 144, where it
\* acts as above before any task has run.)
Cancel ==
    /\ mainpc = "gather" \/ (mainpc = "spawn" /\ spawned = 0)
    /\ cancel_requested' = TRUE
    /\ mainpc' = "cancelled"
    /\ UNCHANGED <<config, keyboard_interrupt, faults, spawned, semaphore,
                   pc, attempt, wait_time, calls, waited, response, only500, f,
                   failed_attempts, failed_count, success_count, f_fail>>

\* ---------------------------------------------------------- fetch_page ---
\* (bug variant: a task runs as soon as it is created, as if main awaited
\* inside the loop of lines 133-135)
RunningDuringSpawn == mainpc \in {"spawn", "gather"} /\ ~cancel_requested

\* Tasks run while main is suspended in gather (line 144).
Running == mainpc = "gather" /\ ~cancel_requested

\* The task of page p exists and has not ended.
Outstanding(p) == pc[p] \notin EndedPcs \cup {"none"}

\* main ended with an exception while tasks exist that it never awaited
\* (a print of its first step raised, or KeyboardInterrupt).  Leaving the
\* blocks of lines 130-131 has closed the output file and the session.
\* asyncio.run (line 177) then cancels the tasks that are left.  That has
\* begun when a task ended cancelled or KeyboardInterrupt left the loop.
ClosingBegun == keyboard_interrupt \/ \E q \in Pages : pc[q] = "cancelled"

\* After a print of main's first step raised, the loop first ends the
\* iteration in which every created task takes its first step, in the order
\* of creation.
FirstSteps == mainpc = "raised" /\ ~ClosingBegun

\* The task of page p is the one the loop runs next in that iteration.
\* (With no free permit the tasks that have run wait like the others.)
NextToStep(p) ==
    /\ pc[p] = "acquire28"
    /\ semaphore = 0 \/ \A q \in 1..(p - 1) : pc[q] /= "acquire28"

\* The tasks left are being cancelled: the iteration of the first steps is
\* over, or KeyboardInterrupt has cut it short.
Closing ==
    /\ mainpc = "raised"
    /\ ClosingBegun \/ \A q \in Pages : pc[q] = "acquire28" => semaphore = 0

\* (bug variant: the call is issued without waiting for a free permit)
AcquireNoGate(p) ==
    /\ Running
    /\ pc[p] = "acquire28"
    /\ semaphore' = semaphore - 1
    /\ calls' = [calls EXCEPT ![p] = @ + 1]
    /\ response' = [response EXCEPT ![p] = NoResponse]
    /\ pc' = [pc EXCEPT ![p] = "get35"]
    /\ UNCHANGED <<config, keyboard_interrupt, faults, mainpc, spawned,
                   cancel_requested, attempt, wait_time, waited, only500, f,
                   failed_attempts, failed_count, success_count, f_fail>>

\* line 28 (__aenter__) to the await of line 35: take a permit, issue the call
Acquire(p) ==
    /\ Running
    /\ pc[p] = "acquire28"
    /\ semaphore > 0
    /\ semaphore' = semaphore - 1
    /\ calls' = [calls EXCEPT ![p] = @ + 1]
    /\ response' = [response EXCEPT ![p] = NoResponse]
    /\ pc' = [pc EXCEPT ![p] = "get35"]
    /\ UNCHANGED <<config, keyboard_interrupt, faults, mainpc, spawned,
                   cancel_requested, attempt, wait_time, waited, only500, f,
                   failed_attempts, failed_count, success_count, f_fail>>

\* (bug variant: the sleeps are outside `async with semaphore`, so the permit
\* is given back before the backoff wait)
RespondSleepsOutside(p, o) ==
    /\ Running
    /\ pc[p] = "get35"
    /\ o \in remote[p][attempt[p]]
    /\ response' = [response EXCEPT ![p] = o]
    /\ only500' = [only500 EXCEPT ![p] = @ /\ o.kind = "response" /\ o.status = 500]
    /\ semaphore' = semaphore + 1
    /\ LET b == Branch(o) IN
       IF b = "return67"
       THEN /\ f' = f \o Lines(p, Len(o.results))
            /\ pc' = [pc EXCEPT ![p] = "returned"]
            /\ UNCHANGED <<wait_time, failed_attempts>>
       ELSE IF b = "append72"
       THEN /\ failed_attempts' = Append(failed_attempts, p)
            /\ pc' = [pc EXCEPT ![p] = "returned"]
            /\ UNCHANGED <<wait_time, f>>
       ELSE /\ f' = IF o.kind = "response" /\ o.body = "results"
                    THEN f \o Lines(p, GoodPrefix(o.results))
                    ELSE f
            /\ wait_time' = [wait_time EXCEPT ![p] = Delay(b, attempt[p])]
            /\ pc' = [pc EXCEPT ![p] = b]
            /\ UNCHANGED failed_attempts
    /\ UNCHANGED <<config, keyboard_interrupt, faults, mainpc, spawned,
                   cancel_requested, attempt, calls, waited,
                   failed_count, success_count, f_fail>>

\* (bug variant: an await between the write of a record's text and the write
\* of its line end; the task is suspended inside the last line of the page
\* and another task can write before the line is ended)
RespondYieldsMidLine(p, o) ==
    /\ Running
    /\ pc[p] = "get35"
    /\ IF response[p] /= NoResponse
       THEN /\ o = response[p]
            /\ f' = Append(f, NL)
            /\ pc' = [pc EXCEPT ![p] = "returned"]
            /\ semaphore' = semaphore + 1
            /\ UNCHANGED <<response, only500, wait_time, failed_attempts>>
       ELSE /\ o \in remote[p][attempt[p]]
            /\ response' = [response EXCEPT ![p] = o]
            /\ only500' = [only500 EXCEPT
                              ![p] = @ /\ o.kind = "response" /\ o.status = 500]
            /\ LET b == Branch(o) IN
               IF b = "return67" /\ o.results /= <<>>
               THEN /\ f' = f \o SubSeq(Lines(p, Len(o.results)),
                                        1, 2 * Len(o.results) - 1)
                    /\ UNCHANGED <<pc, semaphore, wait_time, failed_attempts>>
               ELSE IF b = "return67"
               THEN /\ pc' = [pc EXCEPT ![p] = "returned"]
                    /\ semaphore' = semaphore + 1
                    /\ UNCHANGED <<f, wait_time, failed_attempts>>
               ELSE IF b = "append72"
               THEN /\ failed_attempts' = Append(failed_attempts, p)
                    /\ pc' = [pc EXCEPT ![p] = "returned"]
                    /\ semaphore' = semaphore + 1
                    /\ UNCHANGED <<wait_time, f>>
               ELSE /\ f' = IF o.kind = "response" /\ o.body = "results"
                            THEN f \o Lines(p, GoodPrefix(o.results))
                            ELSE f
                    /\ wait_time' = [wait_time EXCEPT ![p] = Delay(b, attempt[p])]
                    /\ pc' = [pc EXCEPT ![p] = b]
                    /\ UNCHANGED <<semaphore, failed_attempts>>
    /\ UNCHANGED <<config, keyboard_interrupt, faults, mainpc, spawned,
                   cancel_requested, attempt, calls, waited,
                   failed_count, success_count, f_fail>>

\* lines 35-110 up to the next await or return, for the outcome o of the call
Respond(p, o) ==
    /\ Running
    /\ pc[p] = "get35"
    /\ o \in remote[p][attempt[p]]
    /\ response' = [response EXCEPT ![p] = o]
    /\ only500' = [only500 EXCEPT ![p] = @ /\ o.kind = "response" /\ o.status = 500]
    /\ LET b == Branch(o) IN
       IF b = "return67"
       THEN \* lines 53-67: write every record, return (releases the permit)
            /\ f' = f \o Lines(p, Len(o.results))
            /\ pc' = [pc EXCEPT ![p] = "returned"]
            /\ semaphore' = semaphore + 1
            /\ UNCHANGED <<wait_time, failed_attempts>>
       ELSE IF b = "append72"
       THEN \* lines 68-73
            /\ failed_attempts' = Append(failed_attempts, p)
            /\ pc' = [pc EXCEPT ![p] = "returned"]
            /\ semaphore' = semaphore + 1
            /\ UNCHANGED <<wait_time, f>>
       ELSE \* a sleep, still inside `async with semaphore`; a body whose
            \* entry fails to map has written the entries before it
            /\ f' = IF o.kind = "response" /\ o.body = "results"
                    THEN f \o Lines(p, GoodPrefix(o.results))
                    ELSE f
            /\ wait_time' = [wait_time EXCEPT ![p] = Delay(b, attempt[p])]
            /\ pc' = [pc EXCEPT ![p] = b]
            /\ UNCHANGED <<semaphore, failed_attempts>>
    /\ UNCHANGED <<config, keyboard_interrupt, faults, mainpc, spawned,
                   cancel_requested, attempt, calls, waited,
                   failed_count, success_count, f_fail>>

\* The sleep is over.  Lines 42/49 (continue), 88-90, and the end of the
\* handlers all leave `async with` (release) and either start the next
\* iteration, or append and return (lines 89-90, or 112-115 after the loop).
\* (bug variant: the loop gives up one attempt early)
LastAttemptEarly(a) == a = max_attempts - 2

\* (bug variant: the loop runs one attempt more)
LastAttemptLate(a) == a = max_attempts

LastAttempt(a) == a = max_attempts - 1

\* (bug variant: line 90's return is missing, so the final attempt of the
\* non-5xx ClientResponseError branch appends at line 89 and again at 115)
WakeFallsThrough(p) ==
    /\ Running
    /\ pc[p] \in SleepPcs
    /\ waited' = [waited EXCEPT ![p] = @ + wait_time[p]]
    /\ wait_time' = [wait_time EXCEPT ![p] = 0]
    /\ semaphore' = semaphore + 1
    /\ IF LastAttempt(attempt[p])
       THEN /\ failed_attempts' =
                 IF pc[p] = "sleep87"
                 THEN Append(Append(failed_attempts, p), p)
                 ELSE Append(failed_attempts, p)
            /\ pc' = [pc EXCEPT ![p] = "returned"]
            /\ attempt' = attempt
       ELSE /\ attempt' = [attempt EXCEPT ![p] = @ + 1]
            /\ pc' = [pc EXCEPT ![p] = "acquire28"]
            /\ UNCHANGED failed_attempts
    /\ UNCHANGED <<config, keyboard_interrupt, faults, mainpc, spawned,
                   cancel_requested, calls, response, only500, f,
                   failed_count, success_count, f_fail>>

Wake(p) ==
    /\ Running
    /\ pc[p] \in SleepPcs
    /\ waited' = [waited EXCEPT ![p] = @ + wait_time[p]]
    /\ wait_time' = [wait_time EXCEPT ![p] = 0]
    /\ semaphore' = semaphore + 1
    /\ IF LastAttempt(attempt[p])
       THEN /\ failed_attempts' = Append(failed_attempts, p)
            /\ pc' = [pc EXCEPT ![p] = "returned"]
            /\ attempt' = attempt
       ELSE /\ attempt' = [attempt EXCEPT ![p] = @ + 1]
            /\ pc' = [pc EXCEPT ![p] = "acquire28"]
            /\ UNCHANGED failed_attempts
    /\ UNCHANGED <<config, keyboard_interrupt, faults, mainpc, spawned,
                   cancel_requested, calls, response, only500, f,
                   failed_count, success_count, f_fail>>

\* (bug variant: the permit is not given back when the task is cancelled)
CancelledLeaks(p) ==
    /\ cancel_requested \/ Closing
    /\ Outstanding(p)
    /\ pc' = [pc EXCEPT ![p] = "cancelled"]
    /\ UNCHANGED <<config, keyboard_interrupt, faults, mainpc, spawned, semaphore,
                   cancel_requested, attempt, wait_time, calls, waited,
                   response, only500, f,
                   failed_attempts, failed_count, success_count, f_fail>>

\* (bug variant: the cancellation is handled like an unexpected error and
\* the page is recorded as failed)
CancelledRecords(p) ==
    /\ cancel_requested \/ Closing
    /\ Outstanding(p)
    /\ semaphore' = IF pc[p] \in HoldingPcs THEN semaphore + 1 ELSE semaphore
    /\ pc' = [pc EXCEPT ![p] = "cancelled"]
    /\ failed_attempts' = Append(failed_attempts, p)
    /\ UNCHANGED <<config, keyboard_interrupt, faults, mainpc, spawned,
                   cancel_requested, attempt, wait_time, calls, waited,
                   response, only500, f,
                   failed_count, success_count, f_fail>>

\* CancelledError delivered at the await the task is suspended in, after
\* the interrupt or when asyncio.run cancels the tasks main left behind.
\* Waiting for the semaphore (or never started): nothing is held.  Inside the try
\* (lines 35-51): lines 99-103 re-raise.  Inside a handler's sleep: the
\* exception leaves the handler.  In both, __aexit__ releases the permit.
Cancelled(p) ==
    /\ cancel_requested \/ Closing
    /\ Outstanding(p)
    /\ semaphore' = IF pc[p] \in HoldingPcs THEN semaphore + 1 ELSE semaphore
    /\ pc' = [pc EXCEPT ![p] = "cancelled"]
    /\ UNCHANGED <<config, keyboard_interrupt, faults, mainpc, spawned,
                   cancel_requested, attempt, wait_time, calls, waited,
                   response, only500, f,
                   failed_attempts, failed_count, success_count, f_fail>>

\* A print of fetch_page raises (for example ValueError when stdout is
\* closed).  Where the exception goes depends on the line of the print.
\*
\* Lines 29-31, after the acquire and before the try of line 34: the
\* exception leaves fetch_page.  __aexit__ releases the permit, no call is
\* issued, nothing is appended; gather (line 144, return_exceptions=True)
\* keeps the exception as the task's result.
Escapes(p) ==
    /\ Running
    /\ faults < MaxFaults
    /\ faults' = faults + 1
    /\ pc[p] = "acquire28"
    /\ semaphore > 0
    /\ pc' = [pc EXCEPT ![p] = "raised"]
    /\ UNCHANGED <<config, keyboard_interrupt, mainpc, spawned, cancel_requested, semaphore,
                   attempt, wait_time, calls, waited, response, only500, f,
                   failed_attempts, failed_count, success_count, f_fail>>

\* The branches whose print lies in the try body (lines 39, 46, 65, 70): an
\* exception of that print is caught at line 105.
TryBodyBranches == {"sleep41", "sleep48", "return67", "append72"}

\* Where an attempt ends when a print raises while its outcome is handled.
\* In the try body: line 105 catches it and the attempt sleeps at line 110,
\* unless the print of line 108 raises as well.  In an except clause (lines
\* 78, 83, 95, 108): the exception leaves fetch_page.
FaultEnds(b) ==
    IF b \in TryBodyBranches THEN {"sleep110", "raised"} ELSE {"raised"}

\* lines 35-110 for the outcome o of the call when a print on the way
\* raises.  The records mapped before the print are written (lines 54-61);
\* line 72 is not reached, so nothing is appended.
RespondFaulty(p, o) ==
    /\ Running
    /\ faults < MaxFaults
    /\ faults' = faults + 1
    /\ pc[p] = "get35"
    /\ o \in remote[p][attempt[p]]
    /\ response' = [response EXCEPT ![p] = o]
    /\ only500' = [only500 EXCEPT ![p] = @ /\ o.kind = "response" /\ o.status = 500]
    /\ f' = IF o.kind = "response" /\ o.body = "results"
            THEN f \o Lines(p, GoodPrefix(o.results))
            ELSE f
    /\ \E e \in FaultEnds(Branch(o)) :
        IF e = "sleep110"
        THEN /\ wait_time' = [wait_time EXCEPT ![p] = Delay(e, attempt[p])]
             /\ pc' = [pc EXCEPT ![p] = e]
             /\ UNCHANGED semaphore
        ELSE /\ pc' = [pc EXCEPT ![p] = "raised"]
             /\ semaphore' = semaphore + 1
             /\ UNCHANGED wait_time
    /\ UNCHANGED <<config, keyboard_interrupt, mainpc, spawned,
                   cancel_requested, attempt, calls, waited, failed_attempts,
                   failed_count, success_count, f_fail>>

\* The last attempt's sleep is over, the loop ends and the print of line
\* 113 raises: the exception leaves fetch_page before the append of line
\* 115.  (After the sleep of line 87 the last attempt appends and returns
\* at lines 89-90, which hold no print.)
WakeFaulty(p) ==
    /\ Running
    /\ faults < MaxFaults
    /\ faults' = faults + 1
    /\ pc[p] \in SleepPcs \ {"sleep87"}
    /\ LastAttempt(attempt[p])
    /\ waited' = [waited EXCEPT ![p] = @ + wait_time[p]]
    /\ wait_time' = [wait_time EXCEPT ![p] = 0]
    /\ semaphore' = semaphore + 1
    /\ pc' = [pc EXCEPT ![p] = "raised"]
    /\ UNCHANGED <<config, keyboard_interrupt, mainpc, spawned,
                   cancel_requested, attempt, calls, response, only500, f,
                   failed_attempts, failed_count, success_count, f_fail>>

\* CancelledError delivered inside the try body (the awaits of lines 35,
\* 41, 48 and 51) is caught at line 99; the print of line 101 raises, so the
\* task ends with that exception instead of the CancelledError of line 103.
CancelledFaulty(p) ==
    /\ cancel_requested \/ Closing
    /\ faults < MaxFaults
    /\ faults' = faults + 1
    /\ pc[p] \in {"get35", "sleep41", "sleep48"}
    /\ semaphore' = semaphore + 1
    /\ pc' = [pc EXCEPT ![p] = "raised"]
    /\ UNCHANGED <<config, keyboard_interrupt, mainpc, spawned,
                   cancel_requested, attempt, wait_time, calls, waited,
                   response, only500, f,
                   failed_attempts, failed_count, success_count, f_fail>>

\* session.get on the session that main closed when it ended (line 130):
\* RuntimeError, raised inside the try of line 34 before any await.
SessionClosed == Raised("RuntimeError", 0)

\* The first step of a task main left behind: it takes a permit (line 28),
\* session.get raises, line 105 catches it and the task sleeps at line 110.
FirstStep(p) ==
    /\ FirstSteps
    /\ NextToStep(p)
    /\ semaphore > 0
    /\ semaphore' = semaphore - 1
    /\ calls' = [calls EXCEPT ![p] = @ + 1]
    /\ response' = [response EXCEPT ![p] = SessionClosed]
    /\ only500' = [only500 EXCEPT ![p] = FALSE]
    /\ wait_time' = [wait_time EXCEPT ![p] = Delay("sleep110", attempt[p])]
    /\ pc' = [pc EXCEPT ![p] = "sleep110"]
    /\ UNCHANGED <<config, keyboard_interrupt, faults, mainpc, spawned,
                   cancel_requested, attempt, waited, f,
                   failed_attempts, failed_count, success_count, f_fail>>

\* That first step when a print raises: the print of line 30 (before the
\* call) or the print of line 108 (in the handler, after it).  The
\* exception leaves fetch_page, the permit is given back.  (A task takes one
\* first step, so these steps are bounded without MaxFaults.)
FirstStepFaulty(p, called) ==
    /\ FirstSteps
    /\ NextToStep(p)
    /\ semaphore > 0
    /\ faults' = faults + 1
    /\ pc' = [pc EXCEPT ![p] = "raised"]
    /\ IF called
       THEN /\ calls' = [calls EXCEPT ![p] = @ + 1]
            /\ response' = [response EXCEPT ![p] = SessionClosed]
            /\ only500' = [only500 EXCEPT ![p] = FALSE]
       ELSE UNCHANGED <<calls, response, only500>>
    /\ UNCHANGED <<config, keyboard_interrupt, mainpc, spawned, semaphore,
                   cancel_requested, attempt, wait_time, waited, f,
                   failed_attempts, failed_count, success_count, f_fail>>

\* Operator interrupts after the first.  asyncio.run's handler cancels main
\* at the first interrupt if main has not ended (Cancel); at every other
\* interrupt it raises KeyboardInterrupt in the code that is running.  No
\* handler of fetch_page or main catches it: it ends the task or main whose
\* step is running and leaves the loop; asyncio.run then cancels the tasks
\* that are left, as far as further interrupts let it.
\*
\* Between two steps: nothing of the program is running.
InterruptedLoop ==
    /\ cancel_requested \/ mainpc \in {"raised", "done"}
    /\ ~keyboard_interrupt
    /\ keyboard_interrupt' = TRUE
    /\ UNCHANGED <<config, faults, mainpc, spawned, cancel_requested,
                   semaphore, pc, attempt, wait_time, calls, waited, response,
                   only500, f, failed_attempts, failed_count, success_count,
                   f_fail>>

\* The task of page p waits at line 28 and may own a permit without holding
\* it yet: when a task that has made a call releases, Semaphore.release hands
\* the permit to a waiter, which takes it in its next step.  (The permit
\* counts as free in semaphore until then.)
MayOwnPermit(p) ==
    /\ pc[p] = "acquire28"
    /\ semaphore > 0
    /\ \E q \in Pages \ {p} : calls[q] > 0

\* Inside the step in which the task of page p handles its cancellation, or
\* inside the first step of a task main left behind.  The permit the task
\* holds is given back by __aexit__ on the way out, unless the exception is
\* raised before Semaphore.release has counted it (lost); a waiter that was
\* handed a permit gives it back in Semaphore.acquire, unless the exception
\* is raised before that (lost); a first step can be cut before or after
\* its call.
Interrupted(p) ==
    /\ Outstanding(p)
    /\ \/ cancel_requested \/ Closing
       \/ FirstSteps /\ NextToStep(p)
    /\ keyboard_interrupt' = TRUE
    /\ pc' = [pc EXCEPT ![p] = "raised"]
    /\ \E lost, called \in BOOLEAN :
        /\ called => FirstSteps /\ semaphore > 0
        /\ lost => \/ pc[p] \in HoldingPcs
                   \/ FirstSteps /\ semaphore > 0
                   \/ MayOwnPermit(p)
        /\ semaphore' =
              IF pc[p] \in HoldingPcs
              THEN IF lost THEN semaphore ELSE semaphore + 1
              ELSE IF lost THEN semaphore - 1 ELSE semaphore
        /\ IF called
           THEN /\ calls' = [calls EXCEPT ![p] = @ + 1]
                /\ response' = [response EXCEPT ![p] = SessionClosed]
                /\ only500' = [only500 EXCEPT ![p] = FALSE]
           ELSE UNCHANGED <<calls, response, only500>>
    /\ UNCHANGED <<config, faults, mainpc, spawned,
                   cancel_requested, attempt, wait_time, waited, f,
                   failed_attempts, failed_count, success_count, f_fail>>

\* Two interrupts inside one step of a running task: the first cancels main
\* (suspended at line 144), the second raises KeyboardInterrupt in the
\* step, which ends where it is.
\*
\* In the step from line 28 to the await of line 35: the permit may have
\* been taken and the call made.
InterruptedAcquire(p) ==
    /\ Running
    /\ pc[p] = "acquire28"
    /\ semaphore > 0
    /\ cancel_requested' = TRUE
    /\ keyboard_interrupt' = TRUE
    /\ mainpc' = "cancelled"
    /\ pc' = [pc EXCEPT ![p] = "raised"]
    /\ \E lost, called \in BOOLEAN :
        /\ semaphore' = IF lost THEN semaphore - 1 ELSE semaphore
        /\ IF called
           THEN /\ calls' = [calls EXCEPT ![p] = @ + 1]
                /\ response' = [response EXCEPT ![p] = NoResponse]
           ELSE UNCHANGED <<calls, response>>
    /\ UNCHANGED <<config, faults, spawned, attempt, wait_time, waited,
                   only500, f, failed_attempts, failed_count, success_count,
                   f_fail>>

\* In the step that handles the outcome o of the call (lines 35-110): some
\* of the records may have been written (lines 54-61), the append of line
\* 72 may have been made.
InterruptedRespond(p, o) ==
    /\ Running
    /\ pc[p] = "get35"
    /\ o \in remote[p][attempt[p]]
    /\ cancel_requested' = TRUE
    /\ keyboard_interrupt' = TRUE
    /\ mainpc' = "cancelled"
    /\ pc' = [pc EXCEPT ![p] = "raised"]
    /\ response' = [response EXCEPT ![p] = o]
    /\ only500' = [only500 EXCEPT ![p] = @ /\ o.kind = "response" /\ o.status = 500]
    /\ \E lost, appended \in BOOLEAN :
        /\ appended => Branch(o) = "append72"
        /\ semaphore' = IF lost THEN semaphore ELSE semaphore + 1
        /\ failed_attempts' =
              IF appended THEN Append(failed_attempts, p) ELSE failed_attempts
    /\ \E k \in 0..Len(o.results) :
        /\ k > 0 => o.kind = "response" /\ o.body = "results"
        /\ k <= GoodPrefix(o.results)
        /\ f' = f \o Lines(p, k)
    /\ UNCHANGED <<config, faults, spawned, attempt, wait_time, calls,
                   waited, failed_count, success_count, f_fail>>

\* In the step after a sleep (the `async with` is left, then lines 88-90 or
\* 112-115 on the last attempt): the append may have been made.
InterruptedWake(p) ==
    /\ Running
    /\ pc[p] \in SleepPcs
    /\ cancel_requested' = TRUE
    /\ keyboard_interrupt' = TRUE
    /\ mainpc' = "cancelled"
    /\ pc' = [pc EXCEPT ![p] = "raised"]
    /\ waited' = [waited EXCEPT ![p] = @ + wait_time[p]]
    /\ wait_time' = [wait_time EXCEPT ![p] = 0]
    /\ \E lost, appended \in BOOLEAN :
        /\ appended => LastAttempt(attempt[p])
        /\ (lost /\ appended) => pc[p] = "sleep87"
        /\ semaphore' = IF lost THEN semaphore ELSE semaphore + 1
        /\ failed_attempts' =
              IF appended THEN Append(failed_attempts, p) ELSE failed_attempts
    /\ UNCHANGED <<config, faults, spawned, attempt, calls, response,
                   only500, f, failed_count, success_count, f_fail>>

\* Two interrupts inside main's first step (lines 119-144): main ends with
\* KeyboardInterrupt at the line it has reached, before or after opening
\* the output file (line 131) and after creating any number of the tasks,
\* none of which has run.
MainInterrupted ==
    /\ mainpc = "spawn"
    /\ cancel_requested' = TRUE
    /\ keyboard_interrupt' = TRUE
    /\ mainpc' = "raised"
    /\ \E k \in spawned..total_pages, opened \in BOOLEAN :
        /\ (k > 0) => opened
        /\ spawned' = k
        /\ pc' = [p \in Pages |->
                    IF spawned < p /\ p <= k THEN "acquire28" ELSE pc[p]]
        /\ f' = IF opened THEN <<>> ELSE f
    /\ UNCHANGED <<config, faults, semaphore, attempt, wait_time, calls,
                   waited, response, only500, failed_attempts, failed_count,
                   success_count, f_fail>>

\* One interrupt inside main's last step (lines 146-170): main is asked to
\* cancel but reaches no further await, so the summary and the report are
\* written all the same.
FinishCancelRequested ==
    /\ mainpc = "gather"
    /\ ~cancel_requested
    /\ \A p \in Pages : pc[p] \in EndedPcs
    /\ cancel_requested' = TRUE
    /\ failed_count' = Len(failed_attempts)
    /\ success_count' = total_pages - Len(failed_attempts)
    /\ f_fail' = <<failed_attempts>>
    /\ mainpc' = "done"
    /\ UNCHANGED <<config, keyboard_interrupt, faults, spawned,
                   semaphore, pc, attempt, wait_time, calls,
                   waited, response, only500, f, failed_attempts>>

\* failed_attempts.json opened by line 157 (created or emptied) and holding
\* the text json.dump (line 158) had written when it was cut off: nothing,
\* or the beginning of the object with the pages listed so far.
CutOff(pages) == <<pages, "cut off">>

\* The lines of main's last step at which KeyboardInterrupt can end it:
\* before the summary is printed, after the print of line 154, inside
\* json.dump, after json.dump.
FinalStepLines == {146, 154, 157, 158}

\* Two interrupts inside main's last step: main ends with KeyboardInterrupt
\* at the line it has reached, with n pages written in the report when that
\* is inside json.dump.
FinishInterrupted(line, n) ==
    /\ mainpc = "gather"
    /\ ~cancel_requested
    /\ \A p \in Pages : pc[p] \in EndedPcs
    /\ line \in FinalStepLines
    /\ n \in 0..Len(failed_attempts)
    /\ n > 0 => line = 157
    /\ cancel_requested' = TRUE
    /\ keyboard_interrupt' = TRUE
    /\ mainpc' = "raised"
    /\ IF line = 146
       THEN UNCHANGED <<failed_count, success_count>>
       ELSE /\ failed_count' = Len(failed_attempts)
            /\ success_count' = total_pages - Len(failed_attempts)
    /\ f_fail' = CASE line = 157 -> CutOff(SubSeq(failed_attempts, 1, n))
                  [] line = 158 -> <<failed_attempts>>
                  [] OTHER -> f_fail
    /\ UNCHANGED <<config, faults, spawned,
                   semaphore, pc, attempt, wait_time, calls,
                   waited, response, only500, f, failed_attempts>>

\* A print of main raises; main has no handler, so the exception ends it
\* (lines 182-185 exit the process).
\*
\* Line 122, before anything else: no task is created, the output file is
\* not opened.
StartFaulty ==
    /\ mainpc = "spawn"
    /\ spawned = 0
    /\ faults < MaxFaults
    /\ faults' = faults + 1
    /\ mainpc' = "raised"
    /\ UNCHANGED <<config, keyboard_interrupt, spawned, cancel_requested, semaphore, pc, attempt,
                   wait_time, calls, waited, response, only500, f,
                   failed_attempts, failed_count, success_count, f_fail>>

\* Line 142, after the last task was created and before the await of line
\* 144: the tasks exist and are never awaited.  (Line 139 prints only at
\* every progress_interval-th page.)
SpawnFaulty ==
    /\ mainpc = "spawn"
    /\ spawned + 1 = total_pages
    /\ faults < MaxFaults
    /\ faults' = faults + 1
    /\ spawned' = spawned + 1
    /\ pc' = [pc EXCEPT ![spawned + 1] = "acquire28"]
    /\ mainpc' = "raised"
    /\ f' = IF spawned = 0 THEN <<>> ELSE f
    /\ UNCHANGED <<config, keyboard_interrupt, cancel_requested, semaphore, attempt,
                   wait_time, calls, waited, response, only500,
                   failed_attempts, failed_count, success_count, f_fail>>

\* After gather returned.  Lines 150, 152, 154 come before the report is
\* written at line 157: nothing is reported.  Lines 162, 166, 169 come
\* after it: the summary was printed and the report written, then main
\* ends with the exception.
FinishFaulty(reported) ==
    /\ mainpc = "gather"
    /\ \A p \in Pages : pc[p] \in EndedPcs
    /\ faults < MaxFaults
    /\ faults' = faults + 1
    /\ mainpc' = "raised"
    /\ IF reported
       THEN /\ failed_count' = Len(failed_attempts)
            /\ success_count' = total_pages - Len(failed_attempts)
            /\ f_fail' = <<failed_attempts>>
       ELSE UNCHANGED <<failed_count, success_count, f_fail>>
    /\ UNCHANGED <<config, keyboard_interrupt, spawned,
                   cancel_requested, semaphore, pc, attempt, wait_time, calls,
                   waited, response, only500, f, failed_attempts>>

\* main() is called again in the same process after it returned: line 127
\* makes a new semaphore; the output file keeps its content until line 131
\* reopens it, the module global failed_attempts (line 17) is not assigned
\* anywhere, and failed_attempts.json keeps its content until line 157 of
\* this run.
Restart ==
    /\ mainpc = "done"
    /\ run < MaxRuns
    /\ run' = run + 1
    /\ mainpc' = "spawn"
    /\ spawned' = 0
    /\ semaphore' = max_concurrent_requests
    /\ pc' = [p \in Pages |-> "none"]
    /\ attempt' = [p \in Pages |-> 0]
    /\ wait_time' = [p \in Pages |-> 0]
    /\ calls' = [p \in Pages |-> 0]
    /\ waited' = [p \in Pages |-> 0]
    /\ response' = [p \in Pages |-> NoResponse]
    /\ only500' = [p \in Pages |-> TRUE]
    /\ failed_count' = -1
    /\ success_count' = -1
    /\ UNCHANGED <<total_pages, max_concurrent_requests, remote,
                   cancel_requested, f, failed_attempts, faults,
                   keyboard_interrupt, f_fail>>

Next ==
    \/ Spawn
    \/ Finish
    \/ Cancel
    \/ \E p \in Pages : Acquire(p)
    \/ \E p \in Pages : \E o \in Outcomes : Respond(p, o)
    \/ \E p \in Pages : Wake(p)
    \/ \E p \in Pages : Cancelled(p)

Spec == Init /\ [][Next]_vars

SpecPage == InitPage /\ [][Next]_vars

SpecE2E == InitE2E /\ [][Next]_vars

SpecSink == InitSink /\ [][Next]_vars

\* Runs without an interrupt in which a print of fetch_page may raise, in at
\* most MaxFaults steps, so that a task can end with an exception of its
\* own.  The event loop runs whatever is ready and each call and each sleep
\* ends: a step that stays possible is eventually taken.
NextTasksRaise ==
    \/ Spawn
    \/ Finish
    \/ \E p \in Pages : Acquire(p)
    \/ \E p \in Pages : \E o \in Outcomes : Respond(p, o)
    \/ \E p \in Pages : Wake(p)
    \/ \E p \in Pages : Escapes(p)
    \/ \E p \in Pages : \E o \in Outcomes : RespondFaulty(p, o)
    \/ \E p \in Pages : WakeFaulty(p)

SpecTasksRaise == InitFaulty /\ [][NextTasksRaise]_vars /\ WF_vars(NextTasksRaise)

\* Every run: any print raises, in at most MaxFaults steps, and the
\* operator interrupts any number of times.
NextFaulty ==
    \/ Next
    \/ \E p \in Pages : Escapes(p)
    \/ \E p \in Pages : \E o \in Outcomes : RespondFaulty(p, o)
    \/ \E p \in Pages : WakeFaulty(p)
    \/ \E p \in Pages : CancelledFaulty(p)
    \/ StartFaulty
    \/ SpawnFaulty
    \/ \E reported \in BOOLEAN : FinishFaulty(reported)
    \/ \E p \in Pages : FirstStep(p)
    \/ \E p \in Pages : \E called \in BOOLEAN : FirstStepFaulty(p, called)
    \/ InterruptedLoop
    \/ \E p \in Pages : Interrupted(p)
    \/ \E p \in Pages : InterruptedAcquire(p)
    \/ \E p \in Pages : \E o \in Outcomes : InterruptedRespond(p, o)
    \/ \E p \in Pages : InterruptedWake(p)
    \/ MainInterrupted
    \/ FinishCancelRequested
    \/ \E line \in FinalStepLines : \E n \in 0..NumPages :
            FinishInterrupted(line, n)

SpecFaulty == InitFaulty /\ [][NextFaulty]_vars

\* main() run up to MaxRuns times in one process.
NextRuns ==
    \/ Next
    \/ Restart

SpecTwoRuns == Init /\ [][NextRuns]_vars


\* ------------------------------------------------------------ claims ---
\* Number of times x occurs in the sequence s.
Count(s, x) == Cardinality({i \in 1..Len(s) : s[i] = x})

\* Tasks past the semaphore's acquire and before its release.
Holding == {p \in Pages : pc[p] \in HoldingPcs}

\* The records in a stream, in the order written.
IsRecord(t) == t /= NL
Records(s) == SelectSeq(s, IsRecord)

\* The stream is a sequence of whole lines: the text of one record, then
\* its line end.
WholeLines(s) ==
    /\ Len(s) % 2 = 0
    /\ \A k \in 1..Len(s) : (k % 2 = 0) <=> (s[k] = NL)

NumLines(s) == Cardinality({k \in 1..Len(s) : s[k] = NL})

InOutput(p) == \E i \in 1..Len(f) : f[i][1] = p
InLedger(p) == \E i \in 1..Len(failed_attempts) : failed_attempts[i] = p

\* C1: after a completed run every page has a record in the output stream
\* or is in the failure ledger, never both and never neither.
C1_OutputXorLedger ==
    mainpc = "done" => \A p \in Pages : InOutput(p) /= InLedger(p)

\* C2: at most `capacity` tasks are between acquire and release.
C2_AtMostCapacityHolding ==
    Cardinality(Holding) <= max_concurrent_requests

\* every permit is held while another task waits for one
C2_Witness ==
    /\ Cardinality(Holding) = max_concurrent_requests
    /\ total_pages > max_concurrent_requests
    /\ \E p \in Pages : pc[p] = "acquire28" /\ calls[p] = 0

\* C3: free permits + permits held by tasks inside an attempt = capacity, and
\* every permit is free once every task has ended.
C3_NoPermitLeak ==
    /\ semaphore + Cardinality(Holding) = max_concurrent_requests
    /\ (\A p \in Pages : pc[p] \in EndedPcs) => semaphore = max_concurrent_requests

\* a task cancelled inside a handler's sleep has given its permit back
C3_Witness ==
    \E p \in Pages :
        /\ pc[p] = "cancelled"
        /\ wait_time[p] > 0
        /\ response[p].kind = "TimeoutError"
        /\ semaphore = max_concurrent_requests

\* C4: a page answered 500 at every attempt makes exactly max_attempts
\* calls, is then in the ledger exactly once, and has waited at least
\* 1+2+4+8 seconds.
C4_Exhaustion ==
    \A p \in Pages :
        (only500[p] /\ pc[p] = "returned") =>
            /\ calls[p] = 5
            /\ Count(failed_attempts, p) = 1
            /\ waited[p] >= 1 + 2 + 4 + 8

C4_Witness ==
    \E p \in Pages : only500[p] /\ pc[p] = "returned" /\ response[p].status = 500

\* A 2xx response whose JSON body lacks standings.results: no "standings",
\* a "standings" object without "results", or a "standings" that is null.
Malformed(o) ==
    /\ o.kind = "response"
    /\ 200 <= o.status /\ o.status < 300
    /\ o.body \in {"noStandings", "noResults", "standingsNull"}

\* C5: a 2xx body without the keys puts the page in the ledger at once: the
\* task has returned, so that no further call is made and no wait performed
\* for the page, the ledger holds the page once, no wait was started, and
\* the calls made are the attempts so far (one when it is the first).
C5_MalformedIsTerminal ==
    \A p \in Pages :
        Malformed(response[p]) =>
            /\ pc[p] = "returned"
            /\ Count(failed_attempts, p) = 1
            /\ wait_time[p] = 0
            /\ calls[p] = attempt[p] + 1

\* C6: the wait after a 429 on attempt a is 5 * 2^a, after another status
\* outside [200,300) it is 2^a; both grow strictly with a.
C6_BackoffTable ==
    /\ \A p \in Pages :
        /\ pc[p] = "sleep41" => wait_time[p] = <<5, 10, 20, 40, 80>>[attempt[p] + 1]
        /\ pc[p] = "sleep48" => wait_time[p] = <<1, 2, 4, 8, 16>>[attempt[p] + 1]
    /\ \A a \in 0..(max_attempts - 2) :
        /\ RateLimitDelay(a) < RateLimitDelay(a + 1)
        /\ ExpDelay(a) < ExpDelay(a + 1)

C6_Witness ==
    \E p \in Pages : pc[p] = "sleep41" /\ attempt[p] = 4 /\ wait_time[p] = 80

ExceptionSleeps == {"sleep85", "sleep87", "sleep97", "sleep110"}

\* C7 as stated: every attempt that fails with an exception waits 2^a.
C7_Original ==
    \A p \in Pages :
        pc[p] \in ExceptionSleeps =>
            wait_time[p] = <<1, 2, 4, 8, 16>>[attempt[p] + 1]

\* C7 amended: an attempt that fails with a connection error, a timeout, a
\* 5xx ClientResponseError or an unexpected exception waits 2^a; one that
\* fails with a ClientResponseError of another status waits 2 seconds
\* whatever the attempt.
C7_Amended ==
    \A p \in Pages :
        /\ pc[p] \in ExceptionSleeps \ {"sleep87"} =>
                wait_time[p] = <<1, 2, 4, 8, 16>>[attempt[p] + 1]
        /\ pc[p] = "sleep87" => wait_time[p] = 2

\* a non-5xx ClientResponseError on the fourth attempt: 2 seconds, not 8
C7_Witness ==
    \E p \in Pages :
        pc[p] = "sleep87" /\ attempt[p] = 3 /\ response[p].status = 407

\* C8: the three-page scenario ends with ledger [3], three output lines,
\* succeeded = 2 and failed = 1.
C8_EndToEnd ==
    mainpc = "done" =>
        /\ failed_attempts = <<3>>
        /\ f_fail = <<(<<3>>)>>
        /\ WholeLines(f)
        /\ NumLines(f) = 3
        /\ success_count = 2
        /\ failed_count = 1

C8_Witness ==
    mainpc = "done" /\ calls = <<1, 2, 5>> /\ NumLines(f) = 3

\* C9: no page is in the ledger twice, and a page whose task returned
\* through the success path is not in it.
C9_LedgerAtMostOnce ==
    \A p \in Pages :
        /\ Count(failed_attempts, p) <= 1
        /\ (pc[p] = "returned" /\ response[p].body = "results"
                /\ AllMapped(response[p].results)) => ~InLedger(p)

\* recorded once by the final attempt of the non-5xx ClientResponseError branch
C9_Witness ==
    \E p \in Pages :
        /\ pc[p] = "returned"
        /\ response[p].kind = "ClientResponseError"
        /\ response[p].status = 407
        /\ Count(failed_attempts, p) = 1

\* C10: once the run is cancelled, a task that has not ended makes no step
\* but ending as cancelled, issues no further call, and nothing is appended
\* to the ledger.
C10_CancellationPropagates ==
    [][cancel_requested =>
        /\ failed_attempts' = failed_attempts
        /\ calls' = calls
        /\ \A p \in Pages : pc'[p] \in {pc[p], "cancelled"}]_vars

\* one task cancelled in a handler's sleep, another while waiting for a permit
C10_Witness ==
    \E p, q \in Pages :
        /\ pc[p] = "cancelled" /\ wait_time[p] > 0
        /\ response[p].kind = "ClientConnectionError"
        /\ pc[q] = "cancelled" /\ calls[q] = 0
        /\ failed_attempts = <<>>

\* The summary has been computed and the failure report written.
Reported == failed_count >= 0 /\ success_count >= 0 /\ f_fail /= <<>>

\* The task of page p ended through the success path (line 67).
Succeeded(p) == pc[p] = "returned" /\ Branch(response[p]) = "return67"

\* C11: when main has ended, also by a cancellation that arrived while
\* tasks were outstanding, the summary and the failure report exist.
C11_SummaryAfterCancellation ==
    mainpc \in {"done", "cancelled"} => Reported

\* C12: in a run without cancellation every task ends, by success, by a
\* ledger entry or by an exception of its own, after at most 5 calls, and
\* main then writes the summary and the report, whatever failed or raised.
C12_RunTerminates ==
    <>(/\ mainpc = "done"
       /\ Reported
       /\ \A p \in Pages :
            /\ pc[p] \in {"returned", "raised"}
            /\ pc[p] = "returned" => Succeeded(p) \/ InLedger(p)
            /\ calls[p] <= 5)

\* a run that finished although one page failed and another task raised
C12_Witness ==
    /\ mainpc = "done"
    /\ Reported
    /\ \E p, q \in Pages : pc[p] = "raised" /\ InLedger(q)

\* C13: the summary and the report exist only when every spawned task has
\* ended and all total_pages tasks were spawned.
C13_SummaryAfterAllTasks ==
    (failed_count >= 0 \/ success_count >= 0 \/ f_fail /= <<>>) =>
        /\ spawned = total_pages
        /\ \A p \in Pages : pc[p] \in EndedPcs

C13_Witness ==
    mainpc = "done" /\ Reported /\ Len(failed_attempts) >= 1 /\ Len(f) >= 1

\* C14: when every task has returned, whatever the order in which the
\* tasks in flight together were answered, the stream is a sequence of
\* whole lines (no line cut short, none merged with or split by another),
\* one line per record of each page that succeeded and no line twice; N
\* pages that each succeed with one record give N lines.
C14_OneLinePerRecord ==
    (\A p \in Pages : pc[p] = "returned") =>
        LET r == Records(f) IN
        /\ WholeLines(f)
        /\ \A k \in 1..Len(r) :
            /\ r[k][1] \in Pages
            /\ Succeeded(r[k][1])
            /\ r[k][2] \in 1..Len(response[r[k][1]].results)
        /\ \A i, j \in 1..Len(r) : i /= j => r[i] /= r[j]
        /\ \A p \in Pages : Succeeded(p) =>
                Count([k \in 1..Len(r) |-> r[k][1]], p) = Len(response[p].results)
        /\ (\A p \in Pages : Succeeded(p) /\ Len(response[p].results) = 1) =>
                NumLines(f) = total_pages

\* every page succeeded, page 1 with more than one record, and the lines of
\* the last page come first
C14_Witness ==
    /\ \A p \in Pages : Succeeded(p)
    /\ total_pages >= 2
    /\ Len(response[1].results) >= 2
    /\ f[1] = <<total_pages, 1>>
    /\ NumLines(f) > total_pages

\* C15: the tasks created are those of pages 1..spawned, one each; no call
\* is issued before all total_pages tasks exist; a created task waiting
\* for admission is held back by the semaphore only.
C15_AllSpawnedUpFront ==
    /\ \A p \in Pages : (pc[p] /= "none") <=> (p <= spawned)
    /\ (\E p \in Pages : calls[p] > 0 \/ pc[p] \notin {"none", "acquire28"}) =>
            spawned = total_pages
    /\ \A p \in Pages :
        (mainpc = "gather" /\ pc[p] = "acquire28" /\ semaphore > 0) =>
            ENABLED Acquire(p)

\* a call is in flight and the task of the last page waits for admission
C15_Witness ==
    /\ spawned = total_pages
    /\ \E p \in Pages : pc[p] = "get35" /\ calls[p] = 1
    /\ pc[total_pages] = "acquire28"

\* C16: a page issues at most 5 calls; its calls are one more than its
\* finished attempts while an attempt is in progress and equal to them
\* between attempts; an attempt starts only when no wait is in progress
\* and every earlier attempt has had its wait.
C16_AttemptsSequentialAndBounded ==
    \A p \in Pages :
        /\ calls[p] <= 5
        /\ pc[p] \in HoldingPcs => calls[p] = attempt[p] + 1
        /\ pc[p] = "acquire28" => calls[p] = attempt[p]
        /\ pc[p] \in {"acquire28", "get35"} =>
                wait_time[p] = 0 /\ waited[p] >= attempt[p]

\* the fifth call of a page is in flight
C16_Witness ==
    \E p \in Pages : pc[p] = "get35" /\ calls[p] = 5 /\ attempt[p] = 4

\* C17: the ledger is empty when a run of main starts, and the report and
\* the failed count of a run hold only the pages that failed in that run.
C17_LedgerScopedToRun ==
    /\ (mainpc = "spawn" /\ spawned = 0) => failed_attempts = <<>>
    /\ mainpc = "done" =>
        /\ \A i \in 1..Len(f_fail[1]) : ~Succeeded(f_fail[1][i])
        /\ failed_count = Cardinality({p \in Pages : ~Succeeded(p)})

\* C18: no entry of a page is written to the stream twice.
C18_NoEntryWrittenTwice ==
    \A i, j \in 1..Len(Records(f)) : i /= j => Records(f)[i] /= Records(f)[j]

\* C19: in the summary failed is the length of the ledger, succeeded and
\* failed add up to total_pages, and succeeded is the number of tasks that
\* ended through the success path.
C19_SummaryCounts ==
    mainpc = "done" =>
        /\ failed_count = Len(failed_attempts)
        /\ success_count + failed_count = total_pages
        /\ success_count = Cardinality({p \in Pages : Succeeded(p)})

\* C20: the free permits are the capacity less the tasks in a call and the
\* tasks in a backoff wait; when tasks in backoff hold every permit no
\* task is admitted; a task between attempts holds none.
C20_PermitHeldThroughBackoff ==
    /\ semaphore = max_concurrent_requests
                    - Cardinality({p \in Pages : pc[p] = "get35"})
                    - Cardinality({p \in Pages : pc[p] \in SleepPcs})
    /\ Cardinality({p \in Pages : pc[p] \in SleepPcs}) = max_concurrent_requests
            => \A q \in Pages : ~ENABLED Acquire(q)

\* a page in backoff holds the last permit while another page waits
C20_Witness ==
    /\ semaphore = 0
    /\ Cardinality({p \in Pages : pc[p] \in SleepPcs}) = max_concurrent_requests
    /\ \E q \in Pages : pc[q] = "acquire28" /\ calls[q] = 0

=============================================================================
